---- MODULE Spec2Model ----
(***************************************************************************)
(* liboauth, src/oauth_http.c: the command-template HTTP transport.        *)
(*                                                                         *)
(* oauth_exec_post / oauth_exec_get resolve a command template (an         *)
(* environment override or a built-in default), rewrite its %u / %p        *)
(* placeholders to %s in a private copy, format the command with snprintf  *)
(* into a BUFSIZ buffer and hand it to oauth_exec_shell, which popen()s    *)
(* it and collects its standard output in 1024-byte steps.                 *)
(* oauth_curl_post_file is the libcurl file upload (HAVE_CURL builds).     *)
(*                                                                         *)
(* C strings are sequences of one-character strings; a nullable char* is   *)
(* a record [null, val].  The program is single-threaded: pc is the        *)
(* position of the one thread, "idle" between two calls of the API.        *)
(***************************************************************************)
EXTENDS Integers, Sequences, FiniteSets, TLC

(***************************************************************************)
(* Bounds of the model.                                                    *)
(***************************************************************************)
\* stdio.h's BUFSIZ, the size of `char cmd[BUFSIZ]`; scaled down (glibc: 8192)
BUFSIZ == 64
\* how many leaked template copies / file handles the model follows
MaxLeak == 2

(***************************************************************************)
(* Program constants.                                                      *)
(***************************************************************************)
\* the growth increment and the fread count of oauth_exec_shell
CHUNK == 1024

\* the content of memory that was allocated and never written
Uninit == -1

Min(a, b) == IF a <= b THEN a ELSE b

(***************************************************************************)
(* Strings.                                                                *)
(***************************************************************************)
NullStr == [null |-> TRUE, val |-> <<>>]
Str(s) == [null |-> FALSE, val |-> s]

\* strstr(hay, needle) for a two-character needle: the 1-based index of
\* the first occurrence, 0 for NULL (no occurrence)
StrStr(hay, needle) ==
  LET hits == {i \in 1..(Len(hay) - 1) : hay[i] = needle[1] /\ hay[i + 1] = needle[2]}
  IN  IF hits = {} THEN 0 ELSE CHOOSE i \in hits : \A j \in hits : i <= j

PH_P == <<"%", "p">>
PH_U == <<"%", "u">>

\* #define OAUTH_USER_AGENT "liboauth-agent/" VERSION
VERSION == <<"0", ".", "1">>
OAUTH_USER_AGENT ==
  <<"l", "i", "b", "o", "a", "u", "t", "h", "-", "a", "g", "e", "n", "t", "/">> \o VERSION

\* #define _OAUTH_DEF_HTTPCMD "curl -sA '"OAUTH_USER_AGENT"' -d '%p' '%u' "
OAUTH_DEF_HTTPCMD ==
  <<"c", "u", "r", "l", " ", "-", "s", "A", " ", "'">> \o OAUTH_USER_AGENT
    \o <<"'", " ", "-", "d", " ", "'", "%", "p", "'", " ", "'", "%", "u", "'", " ">>

\* #define _OAUTH_DEF_HTTPGET "curl -sA '"OAUTH_USER_AGENT"' '%u' "
OAUTH_DEF_HTTPGET ==
  <<"c", "u", "r", "l", " ", "-", "s", "A", " ", "'">> \o OAUTH_USER_AGENT
    \o <<"'", " ", "'", "%", "u", "'", " ">>

OAUTH_ENV_HTTPCMD == "OAUTH_HTTP_CMD"
OAUTH_ENV_HTTPGET == "OAUTH_HTTP_GET_CMD"
EnvNames == {OAUTH_ENV_HTTPCMD, OAUTH_ENV_HTTPGET}

(***************************************************************************)
(* The inputs the model draws from.                                        *)
(***************************************************************************)
EchoPU == <<"e", "c", "h", "o", " ", "%", "p", " ", "%", "u">>
EchoUP == <<"e", "c", "h", "o", " ", "%", "u", " ", "%", "p">>
EchoU == <<"e", "c", "h", "o", " ", "%", "u">>
EchoP == <<"e", "c", "h", "o", " ", "%", "p">>
Echo == <<"e", "c", "h", "o">>
EchoPctUP == <<"e", "c", "h", "o", " ", "%", "%", "u", " ", "%", "p">>

\* the environments the process may be started in: override of the POST
\* command, override of the GET command
Configs ==
  { [post |-> NullStr,        get |-> NullStr],
    [post |-> Str(EchoPU),    get |-> Str(EchoU)],
    [post |-> Str(EchoUP),    get |-> Str(Echo)],
    [post |-> Str(EchoU),     get |-> Str(EchoU)],
    [post |-> Str(EchoP),     get |-> NullStr],
    [post |-> Str(EchoPctUP), get |-> Str(EchoU)] }

\* a URL that alone fills the command buffer
LongUrl == [i \in 1..BUFSIZ |-> "a"]
Urls == {<<"U">>, LongUrl}
Bodies == {<<"B">>}
Queries == {NullStr, Str(<<"Q">>)}

\* what a block fresh from xmalloc holds before its first NUL byte
Garbage == {<<>>, <<"#">>}

\* the sizes of the subprocess's output
OutputSizes == {0, 1, CHUNK - 1, CHUNK, CHUNK + 1, 2 * CHUNK, 5000}

\* the i-th byte the subprocess writes
OutByte(i) == 1 + (i % 255)

VARIABLES
  env,          \* the environment: name -> nullable string
  deflt,        \* the string literals _OAUTH_DEF_HTTPCMD / _OAUTH_DEF_HTTPGET
  HAVE_CURL,    \* the build option
  pc,           \* "idle", "popen", "loop", "returned", "crashed"
  req,          \* the request in progress, or the last one
  cmd,          \* char cmd[BUFSIZ] as passed to oauth_exec_shell
  shellRan,     \* oauth_exec_shell was entered for req
  in,           \* FILE *in: "none", "NULL", "open", "closed"
  outLen,       \* what the subprocess writes in all
  pos,          \* how much of it has been read
  eof,          \* feof(in)
  rcv, len, alloc, data,   \* the locals of oauth_exec_shell
  ret,          \* the value the last call returned
  fault,        \* what went wrong in the machine, "none" if nothing
  tplLive,      \* template copies allocated and not freed
  openStreams,  \* popen()ed streams not pclose()d
  openFiles     \* fopen()ed files not fclose()d

vars == <<env, deflt, HAVE_CURL, pc, req, cmd, shellRan, in, outLen, pos, eof,
          rcv, len, alloc, data, ret, fault, tplLive, openStreams, openFiles>>

NullBuf == [null |-> TRUE, bytes |-> <<>>, len |-> 0, alloc |-> 0]
NullData == [null |-> TRUE, bytes |-> <<>>]
NoReq == [kind |-> "none", u |-> NullStr, p |-> NullStr, tpl |-> <<>>, full |-> <<>>]

Init ==
  /\ \E c \in Configs :
       env = [n \in EnvNames |-> IF n = OAUTH_ENV_HTTPCMD THEN c.post ELSE c.get]
  /\ deflt = [n \in EnvNames |->
               IF n = OAUTH_ENV_HTTPCMD THEN OAUTH_DEF_HTTPCMD ELSE OAUTH_DEF_HTTPGET]
  /\ HAVE_CURL \in BOOLEAN
  /\ pc = "idle"
  /\ req = NoReq
  /\ cmd = <<>>
  /\ shellRan = FALSE
  /\ in = "none"
  /\ outLen = 0 /\ pos = 0 /\ eof = FALSE
  /\ rcv = 0 /\ len = 0 /\ alloc = 0 /\ data = NullData
  /\ ret = NullBuf
  /\ fault = "none"
  /\ tplLive = 0 /\ openStreams = 0 /\ openFiles = 0

(***************************************************************************)
(* Template resolution: getenv, strdup, strstr, the in-place rewrite.      *)
(***************************************************************************)
\* a char* into the environment, into a string literal or into the heap
EnvPtr(name) == [region |-> "env", key |-> name]
LitPtr(name) == [region |-> "literal", key |-> name]

\* `cmdtpl = getenv(X); if (!cmdtpl) ... _OAUTH_DEF_...`: the string the
\* template is taken from
TemplateSource(name) == IF env[name].null THEN LitPtr(name) ELSE EnvPtr(name)

Load(ptr) == IF ptr.region = "env" THEN env[ptr.key].val ELSE deflt[ptr.key]

StrdupAlias(ptr) == ptr

\* strdup(): a fresh heap block holding a copy of the string
Strdup(ptr) == [region |-> "heap", key |-> ptr.key]

\* `*(++t) = 's'` for t = strstr(...): the character after the '%'
PutS(text, t) == IF t = 0 \/ t + 1 > Len(text) THEN text ELSE [text EXCEPT ![t + 1] = "s"]

PostTemplateInvalidAnd(text) == StrStr(text, PH_P) = 0 /\ StrStr(text, PH_U) = 0

\* `if (!t1 || !t2)` of oauth_exec_post
PostTemplateInvalid(text) == StrStr(text, PH_P) = 0 \/ StrStr(text, PH_U) = 0

\* `if (!t1)` of oauth_exec_get
GetTemplateInvalid(text) == StrStr(text, PH_U) = 0

\* the environment / the literals after the rewritten text is stored
\* through cmdtpl
EnvAfterStore(ptr, text) ==
  IF ptr.region = "env" THEN [env EXCEPT ![ptr.key] = Str(text)] ELSE env
DefltAfterStore(ptr, text) ==
  IF ptr.region = "literal" THEN [deflt EXCEPT ![ptr.key] = text] ELSE deflt

\* 1 if the pointer is a heap block of its own, 0 otherwise
HeapBlocks(ptr) == IF ptr.region = "heap" THEN 1 ELSE 0

(***************************************************************************)
(* snprintf(cmd, BUFSIZ, fmt, args...).                                    *)
(***************************************************************************)
RECURSIVE Format(_, _, _, _)
\* the characters printf produces for fmt from position i on, the next
\* argument being args[k]; "?" stands for the output of a conversion whose
\* argument is missing or of another type
Format(fmt, args, i, k) ==
  IF i > Len(fmt) THEN <<>>
  ELSE IF fmt[i] # "%" THEN <<fmt[i]>> \o Format(fmt, args, i + 1, k)
  ELSE IF i = Len(fmt) THEN <<>>
  ELSE IF fmt[i + 1] = "%" THEN <<"%">> \o Format(fmt, args, i + 2, k)
  ELSE IF fmt[i + 1] = "s" /\ k <= Len(args) THEN args[k] \o Format(fmt, args, i + 2, k + 1)
  ELSE <<"?">> \o Format(fmt, args, i + 2, k + 1)

Sprintf(fmt, args) == Format(fmt, args, 1, 1)

\* what snprintf leaves in a buffer of `size` bytes: at most size - 1
\* characters and the terminator
Snprintf(size, fmt, args) == SubSeq(Sprintf(fmt, args), 1, Min(size - 1, Len(Sprintf(fmt, args))))

\* `(t1 > t2)?u:p, (t1 > t2)?p:u`
PostArgs(t1, t2, u, p) == IF t1 > t2 THEN <<u, p>> ELSE <<p, u>>

(***************************************************************************)
(* oauth_exec_post and oauth_exec_get, up to the call of oauth_exec_shell. *)
(***************************************************************************)
\* the state in which oauth_exec_shell starts: its locals are not yet set
EnterShell(command) ==
  /\ pc' = "popen"
  /\ cmd' = command
  /\ shellRan' = TRUE
  /\ UNCHANGED <<in, outLen, pos, eof, rcv, len, alloc, data, ret>>

\* `return(NULL)` before oauth_exec_shell is reached
ReturnNull ==
  /\ pc' = "returned"
  /\ ret' = NullBuf
  /\ cmd' = <<>>
  /\ shellRan' = FALSE
  /\ UNCHANGED <<in, outLen, pos, eof, rcv, len, alloc, data>>

\* char *oauth_exec_post (const char *u, const char *p)
ExecPost(u, p) ==
  /\ pc = "idle"
  /\ tplLive < MaxLeak
  /\ LET src == TemplateSource(OAUTH_ENV_HTTPCMD)
         cmdtpl == Strdup(src)
         text == Load(src)
         t1 == StrStr(text, PH_P)
         t2 == StrStr(text, PH_U)
         rewritten == PutS(PutS(text, t1), t2)
         args == PostArgs(t1 + 1, t2 + 1, u, p)
     IN  IF PostTemplateInvalid(text)
         THEN /\ req' = [kind |-> "post", u |-> Str(u), p |-> Str(p),
                         tpl |-> text, full |-> <<>>]
              /\ tplLive' = tplLive + HeapBlocks(cmdtpl)
              /\ ReturnNull
              /\ UNCHANGED <<env, deflt>>
         ELSE /\ req' = [kind |-> "post", u |-> Str(u), p |-> Str(p),
                         tpl |-> text, full |-> Sprintf(rewritten, args)]
              /\ env' = EnvAfterStore(cmdtpl, rewritten)
              /\ deflt' = DefltAfterStore(cmdtpl, rewritten)
              /\ tplLive' = tplLive + HeapBlocks(cmdtpl) - HeapBlocks(cmdtpl)
              /\ EnterShell(Snprintf(BUFSIZ, rewritten, args))
  /\ fault' = "none"
  /\ UNCHANGED <<HAVE_CURL, openStreams, openFiles>>

\* `t1=xmalloc(strlen(u)+strlen(q)+2); strcat(t1,u); strcat(t1,"?");
\* strcat(t1,q);`: strcat appends behind whatever the fresh block holds
\* before its first NUL byte
UrlWithQuery(garbage, u, q) == garbage \o u \o <<"?">> \o q

\* char *oauth_exec_get (const char *u, const char *q)
ExecGet(u, q, garbage) ==
  /\ pc = "idle"
  /\ tplLive < MaxLeak
  /\ IF u.null
     THEN /\ req' = [kind |-> "get", u |-> u, p |-> q, tpl |-> <<>>, full |-> <<>>]
          /\ ReturnNull
          /\ fault' = "none"
          /\ UNCHANGED <<env, deflt, tplLive>>
     ELSE LET src == TemplateSource(OAUTH_ENV_HTTPGET)
              cmdtpl == Strdup(src)
              text == Load(src)
              t1 == StrStr(text, PH_U)
              rewritten == PutS(text, t1)
              url == IF q.null THEN u.val ELSE UrlWithQuery(garbage, u.val, q.val)
              size == Len(u.val) + Len(q.val) + 2
          IN  IF GetTemplateInvalid(text)
              THEN /\ req' = [kind |-> "get", u |-> u, p |-> q, tpl |-> text, full |-> <<>>]
                   /\ tplLive' = tplLive + HeapBlocks(cmdtpl)
                   /\ ReturnNull
                   /\ fault' = "none"
                   /\ UNCHANGED <<env, deflt>>
              ELSE /\ req' = [kind |-> "get", u |-> u, p |-> q, tpl |-> text,
                              full |-> Sprintf(rewritten, <<url>>)]
                   /\ env' = EnvAfterStore(cmdtpl, rewritten)
                   /\ deflt' = DefltAfterStore(cmdtpl, rewritten)
                   /\ tplLive' = tplLive + HeapBlocks(cmdtpl) - HeapBlocks(cmdtpl)
                   /\ fault' = IF ~q.null /\ Len(url) + 1 > size
                               THEN "heap_overflow" ELSE "none"
                   /\ EnterShell(Snprintf(BUFSIZ, rewritten, <<url>>))
  /\ UNCHANGED <<HAVE_CURL, openStreams, openFiles>>

(***************************************************************************)
(* oauth_exec_shell.                                                       *)
(***************************************************************************)
\* `FILE *in = popen (cmd, "r"); size_t len = 0; size_t alloc = 0;
\* char *data = NULL; int rcv = 1;`
Popen ==
  /\ pc = "popen"
  /\ \/ /\ in' = "NULL"
        /\ outLen' = 0
        /\ openStreams' = openStreams
     \/ /\ in' = "open"
        /\ outLen' \in OutputSizes
        /\ openStreams' = openStreams + 1
  /\ pos' = 0 /\ eof' = FALSE
  /\ len' = 0 /\ alloc' = 0 /\ data' = NullData /\ rcv' = 1
  /\ pc' = "loop"
  /\ UNCHANGED <<env, deflt, HAVE_CURL, req, cmd, shellRan, ret, fault, tplLive, openFiles>>

\* `while (in && rcv > 0 && !feof(in))`
LoopCond == in # "NULL" /\ rcv > 0 /\ ~eof

\* xrealloc(data, size): the old bytes (as many as fit), then bytes never
\* written
Xrealloc(block, size) ==
  [null |-> FALSE,
   bytes |-> IF size >= Len(block.bytes)
             THEN block.bytes \o [i \in 1..(size - Len(block.bytes)) |-> Uninit]
             ELSE SubSeq(block.bytes, 1, size)]

\* the number of items fread(.., 1, want, in) returns when `remaining`
\* bytes are left in the stream
FreadCount(want, remaining) == Min(want, remaining)

FeofAtExactEnd(want, remaining) == remaining <= want

\* feof(in) after that fread: the read ran into the end of the stream
FeofAfterFread(want, remaining) == remaining < want

\* the offset in the block at which `fread(data, ...)` stores
FreadDest(length) == 0

\* the bytes fread takes from the stream at position `from`
StreamBytes(from, count) == [i \in 1..count |-> OutByte(from + i)]

\* a block after `chunk` was stored at offset dest (what fits of it)
StoreAt(block, dest, chunk) ==
  LET fits == Min(Len(chunk), Len(block.bytes) - dest)
  IN  [block EXCEPT !.bytes = SubSeq(block.bytes, 1, dest) \o SubSeq(chunk, 1, fits)
                                \o SubSeq(block.bytes, dest + fits + 1, Len(block.bytes))]

\* the loop body: `alloc +=1024; data = xrealloc(data, alloc * sizeof(char));
\* rcv = fread(data, sizeof(char), 1024, in); len += rcv;`
ShellRead ==
  /\ pc = "loop"
  /\ LoopCond
  /\ LET newAlloc == alloc + CHUNK
         got == FreadCount(CHUNK, outLen - pos)
         dest == FreadDest(len)
     IN  /\ alloc' = newAlloc
         /\ rcv' = got
         /\ data' = StoreAt(Xrealloc(data, newAlloc), dest, StreamBytes(pos, got))
         /\ fault' = IF dest + got > newAlloc THEN "heap_overflow" ELSE fault
         /\ len' = len + got
         /\ pos' = pos + got
         /\ eof' = FeofAfterFread(CHUNK, outLen - pos)
  /\ UNCHANGED <<env, deflt, HAVE_CURL, pc, req, cmd, shellRan, in, outLen, ret,
                 tplLive, openStreams, openFiles>>

\* `data[len]=0` on a block of alloc bytes
StoreTerminator(block, length) ==
  IF length < Len(block.bytes)
  THEN [block EXCEPT !.bytes[length + 1] = 0]
  ELSE block

\* after the loop, the stream being open: `pclose(in); data[len]=0;
\* return (data);`
ShellReturn ==
  /\ pc = "loop"
  /\ ~LoopCond
  /\ in = "open"
  /\ in' = "closed"
  /\ openStreams' = openStreams - 1
  /\ data' = StoreTerminator(data, len)
  /\ ret' = [null |-> data.null, bytes |-> data'.bytes, len |-> len, alloc |-> alloc]
  /\ fault' = IF len >= alloc THEN "heap_overflow" ELSE fault
  /\ pc' = "returned"
  /\ UNCHANGED <<env, deflt, HAVE_CURL, req, cmd, shellRan, outLen, pos, eof, rcv, len,
                 alloc, tplLive, openFiles>>

\* what `pclose(NULL); data[len]=0;` with data == NULL can do
NullOutcomes == {"pclose_null", "store_null", "untrapped"}

\* after the loop, popen having returned NULL: pclose(NULL) and the store
\* through the null pointer data are undefined
ShellNullStream ==
  /\ pc = "loop"
  /\ ~LoopCond
  /\ in = "NULL"
  /\ \E outcome \in NullOutcomes :
       /\ fault' = outcome
       /\ IF outcome = "untrapped"
          THEN pc' = "returned" /\ ret' = NullBuf
          ELSE pc' = "crashed" /\ ret' = ret
  /\ UNCHANGED <<in, outLen, pos, eof, rcv, len, alloc, data>>
  /\ UNCHANGED <<env, deflt, HAVE_CURL, req, cmd, shellRan, tplLive, openStreams, openFiles>>

(***************************************************************************)
(* oauth_curl_post_file and oauth_post_file.                               *)
(***************************************************************************)
\* the files a caller may name: stat() and fopen() succeed on "readable",
\* only stat() on "unreadable", neither on "missing"
Files == {"missing", "unreadable", "readable"}
FileLens == {0, 5}

\* the reply WriteMemoryCallback collected: chunk.data stays NULL when no
\* byte arrived
CurlReply(n) ==
  IF n = 0 THEN NullBuf
  ELSE [null |-> FALSE, bytes |-> [i \in 1..(n + 1) |-> IF i <= n THEN OutByte(i) ELSE 0],
        len |-> n, alloc |-> n + 1]

\* char *oauth_curl_post_file (u, fn, len, customheader), compiled with
\* HAVE_CURL
CurlPostFile(u, fn, length, initOk, performOk, reply) ==
  /\ HAVE_CURL
  /\ pc = "idle"
  /\ openFiles < MaxLeak
  /\ req' = [kind |-> "post_file", u |-> Str(u), p |-> NullStr, tpl |-> <<>>, full |-> <<>>]
  /\ IF length = 0 /\ fn = "missing"
     THEN \* `if (stat(fn, &statbuf) == -1) return(NULL);`
          /\ ret' = NullBuf /\ openFiles' = openFiles
     ELSE IF fn # "readable"
     THEN \* `FILE *f = fopen(fn,"r"); if (!f) return NULL;`
          /\ ret' = NullBuf /\ openFiles' = openFiles
     ELSE IF ~initOk
     THEN \* `curl = curl_easy_init(); if(!curl) return NULL;`
          /\ ret' = NullBuf /\ openFiles' = openFiles + 1
     ELSE IF ~performOk
     THEN \* `res = curl_easy_perform(curl); if (res) { return NULL; }`
          /\ ret' = NullBuf /\ openFiles' = openFiles + 1
     ELSE \* `fclose(f); curl_easy_cleanup(curl); return (chunk.data);`
          /\ ret' = CurlReply(reply) /\ openFiles' = openFiles + 1 - 1
  /\ fault' = "none"
  /\ shellRan' = FALSE
  /\ cmd' = <<>>
  /\ pc' = "returned"
  /\ UNCHANGED <<env, deflt, HAVE_CURL, in, outLen, pos, eof, rcv, len, alloc, data,
                 tplLive, openStreams>>

\* char *oauth_post_file (u, fn, len, contenttype) without HAVE_CURL
PostFileNoCurl(u) ==
  /\ ~HAVE_CURL
  /\ pc = "idle"
  /\ req' = [kind |-> "post_file", u |-> Str(u), p |-> NullStr, tpl |-> <<>>, full |-> <<>>]
  /\ ret' = NullBuf
  /\ fault' = "none"
  /\ shellRan' = FALSE
  /\ cmd' = <<>>
  /\ pc' = "returned"
  /\ UNCHANGED <<env, deflt, HAVE_CURL, in, outLen, pos, eof, rcv, len, alloc, data,
                 tplLive, openStreams, openFiles>>

(***************************************************************************)
(* The program: any sequence of calls, one at a time.                      *)
(***************************************************************************)
\* the caller takes the returned value (and frees the buffer it owns); the
\* stack frame of the call is gone
Release ==
  /\ pc = "returned"
  /\ pc' = "idle"
  /\ ret' = NullBuf
  /\ req' = NoReq
  /\ cmd' = <<>>
  /\ shellRan' = FALSE
  /\ fault' = "none"
  /\ in' = "none" /\ outLen' = 0 /\ pos' = 0 /\ eof' = FALSE
  /\ rcv' = 0 /\ len' = 0 /\ alloc' = 0 /\ data' = NullData
  /\ UNCHANGED <<env, deflt, HAVE_CURL, tplLive, openStreams, openFiles>>

DoExecPost == \E u \in Urls, p \in Bodies : ExecPost(u, p)
DoExecGet ==
  \E u \in {NullStr} \cup {Str(x) : x \in Urls}, q \in Queries, g \in Garbage : ExecGet(u, q, g)
DoCurlPostFile ==
  \E fn \in Files, length \in FileLens, initOk \in BOOLEAN, performOk \in BOOLEAN,
     reply \in {0, 2} : CurlPostFile(<<"U">>, fn, length, initOk, performOk, reply)
DoPostFileNoCurl == PostFileNoCurl(<<"U">>)

Next ==
  \/ DoExecPost
  \/ DoExecGet
  \/ DoCurlPostFile
  \/ DoPostFileNoCurl
  \/ Popen
  \/ ShellRead
  \/ ShellReturn
  \/ ShellNullStream
  \/ Release

Spec == Init /\ [][Next]_vars

(***************************************************************************)
(* What the properties below are stated with.                              *)
(***************************************************************************)
\* how often the two-character placeholder occurs in the text
Occurrences(text, ph) ==
  Cardinality({i \in 1..(Len(text) - 1) : text[i] = ph[1] /\ text[i + 1] = ph[2]})

\* the text with the two characters at idx replaced by value
ReplaceAt(text, idx, value) ==
  SubSeq(text, 1, idx - 1) \o value \o SubSeq(text, idx + 2, Len(text))

\* the template with %u replaced by u and %p replaced by p
Substituted(tpl, u, p) ==
  LET iu == StrStr(tpl, PH_U)
      ip == StrStr(tpl, PH_P)
  IN  IF iu < ip THEN ReplaceAt(ReplaceAt(tpl, ip, p), iu, u)
      ELSE ReplaceAt(ReplaceAt(tpl, iu, u), ip, p)

\* the URL a GET request is to fetch
EffectiveUrl(u, q) == IF q.null THEN u.val ELSE u.val \o <<"?">> \o q.val

\* the request's template lacks a placeholder the request needs
LacksPlaceholder ==
  \/ req.kind = "post" /\ (StrStr(req.tpl, PH_U) = 0 \/ StrStr(req.tpl, PH_P) = 0)
  \/ req.kind = "get" /\ ~req.u.null /\ StrStr(req.tpl, PH_U) = 0

\* oauth_exec_shell has returned to its caller, the stream having been opened
ShellReturned == pc = "returned" /\ in = "closed"

(***************************************************************************)
(* C1.  For a POST template with exactly one %u and exactly one %p, in     *)
(* either order, the command oauth_exec_post passes on is the template     *)
(* with %u replaced by the URL and %p replaced by the body.                *)
(***************************************************************************)
C1_PostCommandIsSubstitutedTemplate ==
  (/\ pc = "popen"
   /\ req.kind = "post"
   /\ Occurrences(req.tpl, PH_U) = 1
   /\ Occurrences(req.tpl, PH_P) = 1)
  => cmd = Substituted(req.tpl, req.u.val, req.p.val)

\* the same for the requests the historical code handles: no other '%'
\* in the template, and the command fits the buffer
PostCommandWhenPlainAndFits ==
  (/\ pc = "popen"
   /\ req.kind = "post"
   /\ Cardinality({i \in 1..Len(req.tpl) : req.tpl[i] = "%"}) = 2
   /\ Len(req.full) < BUFSIZ)
  => cmd = Substituted(req.tpl, req.u.val, req.p.val)

(***************************************************************************)
(* C2.  A GET request whose template lacks %u, and a POST request whose    *)
(* template lacks %u or %p, returns NULL, and oauth_exec_shell (popen) is  *)
(* not entered for it.                                                     *)
(***************************************************************************)
C2_InvalidTemplateRejected ==
  LacksPlaceholder => (pc = "returned" /\ ret.null /\ ~shellRan /\ in = "none")

C2_Witness ==
  /\ pc = "returned"
  /\ req.kind = "post"
  /\ StrStr(req.tpl, PH_U) > 0
  /\ StrStr(req.tpl, PH_P) = 0
  /\ ret.null

C4_BufferHoldsEntireOutput ==
  ShellReturned => SubSeq(ret.bytes, 1, ret.len) = StreamBytes(0, outLen)

(***************************************************************************)
(* C5.  When popen yields no stream, oauth_exec_shell returns NULL to its  *)
(* caller; nothing on that path is fatal to the process.                   *)
(***************************************************************************)
C5_SpawnFailureReturnsCleanly ==
  (in = "NULL" /\ pc # "loop") => (pc = "returned" /\ ret.null /\ fault = "none")

(***************************************************************************)
(* C6.  For a GET template holding %u, the value substituted for %u is     *)
(* exactly u ? q when q is given, and u when q is NULL.                    *)
(***************************************************************************)
C6_GetUrlIsUrlQuestionQuery ==
  (pc = "popen" /\ req.kind = "get")
  => cmd = ReplaceAt(req.tpl, StrStr(req.tpl, PH_U), EffectiveUrl(req.u, req.p))

(***************************************************************************)
(* C7.  A request whose formatted command is longer than the command       *)
(* buffer fails, and oauth_exec_shell is not entered for it.               *)
(***************************************************************************)
C7_TooLongCommandRejected ==
  Len(req.full) > BUFSIZ => (~shellRan /\ (pc = "returned" => ret.null))

(***************************************************************************)
(* C8.  When a call has returned, no stream and no file it opened is       *)
(* still open.                                                             *)
(***************************************************************************)
C8_HandlesReleased ==
  pc \in {"idle", "returned"} => (openStreams = 0 /\ openFiles = 0)

(***************************************************************************)
(* C9.  No step changes the override strings of the environment or the     *)
(* built-in default templates: the placeholders are rewritten in the       *)
(* private copy only.                                                      *)
(***************************************************************************)
C9_TemplateSourceUnchanged == [][env' = env /\ deflt' = deflt]_vars

C9_Witness ==
  /\ pc = "popen"
  /\ req.kind = "post"
  /\ ~env[OAUTH_ENV_HTTPCMD].null
  /\ req.tpl = env[OAUTH_ENV_HTTPCMD].val
  /\ StrStr(env[OAUTH_ENV_HTTPCMD].val, PH_U) > 0
  /\ StrStr(env[OAUTH_ENV_HTTPCMD].val, PH_P) > 0
  /\ StrStr(cmd, PH_U) = 0

(***************************************************************************)
(* C10.  When oauth_exec_post or oauth_exec_get has returned, no template  *)
(* copy it allocated is still allocated.                                   *)
(***************************************************************************)
C10_TemplateCopiesFreed ==
  pc \in {"idle", "returned"} => tplLive = 0

====
